---- MODULE Spec2Model ----
(***************************************************************************)
(* Model of logistic_lag_autocorr_patterns_app.py: the run started by the  *)
(* "Run Model" button.  load_data, prepare_features, the TimeSeriesSplit   *)
(* walk-forward loop, the averaged metrics and the full-sample fit.        *)
(*                                                                         *)
(* Conventions.  A DataFrame is a sequence of rows (records); row numbers  *)
(* are 0-based as in pandas, so row i of df is df[i + 1].  A float is an   *)
(* exact reduced fraction [num, den]; NaN is the fraction 0/0.  A Date     *)
(* text "dd/mm/yyyy" is [day, month, year]; a parsed date is its day       *)
(* number in the year.  A price text "u,cc" is [units, cents]; the parsed  *)
(* price is counted in hundredths.                                         *)
(***************************************************************************)
EXTENDS Integers, Sequences, FiniteSets, TLC

\* Bounds of the model.
MaxDate == 10
MaxDataDate == 7
MaxSplits == 4
MaxLags == 2

\* Program constants.
MinSplits == 3
SliderMaxSplits == 10

LagOptions == {1, 2, 3, 5, 10}
ModelNames == {"Logistic Regression", "Decision Tree", "Random Forest"}

-----------------------------------------------------------------------------
(* Numbers *)

Abs(n) == IF n < 0 THEN -n ELSE n

Min(a, b) == IF a <= b THEN a ELSE b

RECURSIVE GCD(_, _)
GCD(a, b) == IF b = 0 THEN a ELSE GCD(b, a % b)

NaN == [num |-> 0, den |-> 0]

IsNaN(x) == x.den = 0

\* n / d as a float: reduced, the sign on the numerator; d = 0 gives NaN
\* (the inputs of the model keep n = 0 whenever d = 0).
Frac(n, d) ==
    IF d = 0 THEN NaN
    ELSE LET g == GCD(Abs(n), Abs(d))
             s == IF d < 0 THEN -1 ELSE 1
         IN [num |-> s * (n \div g), den |-> s * (d \div g)]

FracAdd(x, y) == Frac(x.num * y.den + y.num * x.den, x.den * y.den)

NonNegative(x) == ~IsNaN(x) /\ x.num >= 0

Range(s) == {s[i] : i \in 1..Len(s)}

SetMax(S) == CHOOSE m \in S : \A x \in S : x <= m

-----------------------------------------------------------------------------
(* load_data *)

\* Days of 2020 before each month.
DaysBefore == <<0, 31, 60, 91, 121, 152, 182, 213, 244, 274, 305, 335>>

\* pd.to_datetime(text, format='%d/%m/%Y'), as the day number in 2020.
to_datetime(text) == DaysBefore[text.month] + text.day

\* .astype(str).str.replace(',', '.').astype(float), in hundredths.
ParsePrice(text) == text.units * 100 + text.cents

\* pd.read_csv(...)[["Date", "Adj.Close"]].rename(...), then the float loop.
ReadPrices(file, col) ==
    [i \in 1..Len(file) |->
        IF col = "goog_price"
        THEN [Date |-> file[i].Date, goog_price |-> ParsePrice(file[i].AdjClose)]
        ELSE [Date |-> file[i].Date, sp_price |-> ParsePrice(file[i].AdjClose)]]

\* pd.merge(goog, sp500, on="Date"): inner join on the Date text, in the
\* order of the left frame's rows.
RECURSIVE Merge(_, _)
Merge(goog, sp500) ==
    IF goog = <<>> THEN <<>>
    ELSE LET g == Head(goog)
             m == SelectSeq(sp500, LAMBDA r : r.Date = g.Date)
         IN [i \in 1..Len(m) |->
                [Date |-> g.Date, goog_price |-> g.goog_price,
                 sp_price |-> m[i].sp_price]]
            \o Merge(Tail(goog), sp500)

\* One row put into a frame already sorted by Date, latest first.
RECURSIVE InsertDesc(_, _)
InsertDesc(row, df) ==
    IF df = <<>> THEN <<row>>
    ELSE IF row.Date > Head(df).Date THEN <<row>> \o df
    ELSE <<Head(df)>> \o InsertDesc(row, Tail(df))

RECURSIVE InsertAsc(_, _)
InsertAsc(row, df) ==
    IF df = <<>> THEN <<row>>
    ELSE IF row.Date < Head(df).Date THEN <<row>> \o df
    ELSE <<Head(df)>> \o InsertAsc(row, Tail(df))

RECURSIVE SortAscending(_)
SortAscending(df) ==
    IF df = <<>> THEN <<>> ELSE InsertAsc(Head(df), SortAscending(Tail(df)))

\* df.sort_values("Date", ascending=False).reset_index(drop=True)
RECURSIVE SortByDate(_)
SortByDate(df) ==
    IF df = <<>> THEN <<>> ELSE InsertDesc(Head(df), SortByDate(Tail(df)))

\* Series.pct_change(): row i against row i - 1 of the frame as it stands.
pct_change(prices) ==
    [i \in 1..Len(prices) |->
        IF i = 1 THEN NaN
        ELSE Frac(prices[i] - prices[i - 1], prices[i - 1])]

HasNaN(row) ==
    \E c \in DOMAIN row :
        \/ c \in {"goog_ret", "sp_ret"} /\ IsNaN(row[c])
        \/ c \in {"goog_lag", "sp_lag"} /\ \E k \in DOMAIN row[c] : IsNaN(row[c][k])

\* df.dropna().reset_index(drop=True)
dropna(df) == SelectSeq(df, LAMBDA row : ~HasNaN(row))

load_data(gfile, sfile) ==
    LET merged == Merge(ReadPrices(gfile, "goog_price"), ReadPrices(sfile, "sp_price"))
        dated  == [i \in 1..Len(merged) |->
                     [merged[i] EXCEPT !.Date = to_datetime(merged[i].Date)]]
        df     == SortByDate(dated)
        gret   == pct_change([i \in 1..Len(df) |-> df[i].goog_price])
        sret   == pct_change([i \in 1..Len(df) |-> df[i].sp_price])
    IN dropna([i \in 1..Len(df) |->
                 [Date |-> df[i].Date, goog_price |-> df[i].goog_price,
                  sp_price |-> df[i].sp_price,
                  goog_ret |-> gret[i], sp_ret |-> sret[i]]])

-----------------------------------------------------------------------------
(* prepare_features *)

\* Series.shift(periods): row i takes the value of row i - periods.
shift(col, periods) ==
    [i \in 1..Len(col) |->
        IF i - periods \in 1..Len(col) THEN col[i - periods] ELSE NaN]

\* shift(lag) instead: row i would take the value lag rows above it.
ShiftPeriodsForward(lag) == lag

\* The period prepare_features passes to shift for a lag.
ShiftPeriods(lag) == -lag

RECURSIVE SortedLags(_)
SortedLags(ls) ==
    IF ls = <<>> THEN <<>>
    ELSE LET m == CHOOSE x \in Range(ls) : \A z \in Range(ls) : x <= z
         IN <<m>> \o SortedLags(SelectSeq(ls, LAMBDA x : x # m))

\* The lags in the order the feature columns are listed: the order of the
\* lags argument.
FeatureLags(lags) == lags

\* f"goog_lag{lag}" and f"sp_lag{lag}"
FeatureName(col, lag) == [col |-> col, lag |-> lag]

prepare_features(df, lags) ==
    LET gcol(k) == shift([i \in 1..Len(df) |-> df[i].goog_ret], ShiftPeriods(k))
        scol(k) == shift([i \in 1..Len(df) |-> df[i].sp_ret], ShiftPeriods(k))
        wide == [i \in 1..Len(df) |->
                   df[i] @@
                   [goog_lag |-> [k \in Range(lags) |-> gcol(k)[i]],
                    sp_lag   |-> [k \in Range(lags) |-> scol(k)[i]],
                    goog_up  |-> IF NonNegative(df[i].goog_ret) THEN 1 ELSE 0]]
        order == FeatureLags(lags)
    IN [df |-> dropna(wide),
        features |-> [j \in 1..Len(order) |-> FeatureName("goog_lag", order[j])]
                     \o [j \in 1..Len(order) |-> FeatureName("sp_lag", order[j])]]

-----------------------------------------------------------------------------
(* State *)

VARIABLES
    goog_file,    \* uploaded GOOG CSV: rows [Date, AdjClose] in file order
    sp500_file,   \* uploaded S&P500 CSV
    lags,         \* st.multiselect: the selected lags, in selection order
    model_type,   \* st.selectbox
    splits,       \* st.slider
    pc,           \* where the run stands
    error,        \* the exception that ended the run, or "none"
    df_raw,       \* load_data's frame
    df_lagged,    \* prepare_features' frame
    features,     \* prepare_features' column list
    model,        \* the classifier instance the run holds
    n_instances,  \* classifier instances constructed so far
    folds,        \* the (train_index, test_index) pairs tscv.split has yielded
    metrics,      \* the list of per-fold metric dicts
    preds_df,     \* the predictions table
    fit_log,      \* history: every fit call, with the instance it was made on
    pred_log,     \* history: every fold prediction, row by row
    df_metrics,   \* <<>> until the averaged metrics are written to the page
    roc,          \* <<>> until the ROC curve is drawn
    fi            \* <<>> until the feature-importance tab is filled

vars == <<goog_file, sp500_file, lags, model_type, splits, pc, error, df_raw,
          df_lagged, features, model, n_instances, folds, metrics, preds_df,
          fit_log, pred_log, df_metrics, roc, fi>>

inputs == <<goog_file, sp500_file, lags, model_type, splits>>

NoModel ==
    [id |-> 0, kind |-> "none", fitted |-> FALSE, classes |-> {},
     X |-> <<>>, y |-> <<>>, seen |-> {}]

-----------------------------------------------------------------------------
(* Inputs *)

\* The i-th day of the calendar the uploaded files draw from: consecutive
\* days from 27/01/2020, so that the text order of "dd/mm/yyyy" and the
\* order in time differ.
CalendarDate(i) ==
    IF 26 + i <= 31
    THEN [day |-> 26 + i, month |-> 1, year |-> 2020]
    ELSE [day |-> i - 5, month |-> 2, year |-> 2020]

PriceTexts == {[units |-> 1, cents |-> 0], [units |-> 1, cents |-> 50]}

RECURSIVE AscSeq(_)
AscSeq(S) ==
    IF S = {} THEN <<>>
    ELSE LET m == CHOOSE x \in S : \A y \in S : x <= y
         IN <<m>> \o AscSeq(S \ {m})

Reverse(s) == [i \in 1..Len(s) |-> s[Len(s) + 1 - i]]

\* A CSV file with one row per calendar day of days, oldest or latest first.
CsvFile(days, order, price) ==
    LET idx == IF order = "asc" THEN AscSeq(days) ELSE Reverse(AscSeq(days))
    IN [j \in 1..Len(idx) |->
           [Date |-> CalendarDate(idx[j]), AdjClose |-> price[idx[j]]]]

\* The index prices: one fixed path whose returns vary.
SpPath(n) ==
    [j \in 1..n |-> IF j % 3 = 1 THEN [units |-> 1, cents |-> 0]
                    ELSE [units |-> 1, cents |-> 50]]

\* Every selection of at most n lags, in every selection order.
LagSelections(n) ==
    {s \in UNION {[1..m -> LagOptions] : m \in 0..n} :
        \A i, j \in 1..Len(s) : i # j => s[i] # s[j]}

Unstarted ==
    /\ pc = "start"
    /\ error = "none"
    /\ df_raw = <<>>
    /\ df_lagged = <<>>
    /\ features = <<>>
    /\ model = NoModel
    /\ n_instances = 0
    /\ folds = <<>>
    /\ metrics = <<>>
    /\ preds_df = <<>>
    /\ fit_log = <<>>
    /\ pred_log = <<>>
    /\ df_metrics = <<>>
    /\ roc = <<>>
    /\ fi = <<>>

\* Inputs of the data stages: every price path of the target over a short
\* calendar, both file orders, an index file with or without a missing day,
\* every lag selection.
InitData ==
    /\ \E price \in [1..MaxDataDate -> PriceTexts], order \in {"asc", "desc"},
          skip \in {0, 3} :
          /\ goog_file = CsvFile(1..MaxDataDate, order, price)
          /\ sp500_file = CsvFile((1..MaxDataDate) \ {skip}, "desc",
                                  SpPath(MaxDataDate))
    /\ lags \in LagSelections(MaxLags)
    /\ model_type = "Logistic Regression"
    /\ splits = MinSplits
    /\ Unstarted

-----------------------------------------------------------------------------
(* The run: data stages *)

Raise(name) ==
    /\ pc' = "error"
    /\ error' = name

\* Line 73: df_raw = load_data(goog_file, sp500_file)
LoadData ==
    /\ pc = "start"
    /\ df_raw' = load_data(goog_file, sp500_file)
    /\ pc' = "loaded"
    /\ UNCHANGED <<inputs, error, df_lagged, features, model, n_instances,
                   folds, metrics, preds_df, fit_log, pred_log, df_metrics,
                   roc, fi>>

\* Timestamp.dayofweek (Monday = 0) and .month of a day number of 2020.
Weekday(date) == (date + 1) % 7

Month(date) == SetMax({m \in 1..12 : DaysBefore[m] < date})

\* Lines 75-109: the ADF test, the autocorrelation plot and the seasonality
\* bars.  They only draw, except that df_raw gains the Weekday and Month
\* columns.  statsmodels refuses some series (too short, constant); when it
\* does is the library's own rule, so either outcome is possible here.
PatternDetection ==
    /\ pc = "loaded"
    /\ \/ /\ df_raw' = [i \in 1..Len(df_raw) |->
                          df_raw[i] @@ [Weekday |-> Weekday(df_raw[i].Date),
                                        Month |-> Month(df_raw[i].Date)]]
          /\ pc' = "patterns"
          /\ UNCHANGED error
       \/ /\ Raise("ValueError")
          /\ UNCHANGED df_raw
    /\ UNCHANGED <<inputs, df_lagged, features, model, n_instances, folds,
                   metrics, preds_df, fit_log, pred_log, df_metrics, roc, fi>>

\* Lines 111-113: df_lagged, features = prepare_features(df_raw, lags)
PrepareFeatures ==
    /\ pc = "patterns"
    /\ LET r == prepare_features(df_raw, lags)
       IN /\ df_lagged' = r.df
          /\ features' = r.features
    /\ pc' = "prepared"
    /\ UNCHANGED <<inputs, error, df_raw, model, n_instances, folds, metrics,
                   preds_df, fit_log, pred_log, df_metrics, roc, fi>>

-----------------------------------------------------------------------------
(* TimeSeriesSplit(n_splits = k).split(X) on n samples (gap 0, no test_size,
   no max_train_size) *)

TestSize(n, k) == n \div (k + 1)

\* A check that lets a sample of exactly k rows through.
SplitRaisesBelowK(n, k) ==
    \/ k > n
    \/ n - TestSize(n, k) * k < 0

\* The ValueErrors split raises before it yields anything.
SplitRaises(n, k) ==
    \/ k + 1 > n
    \/ n - TestSize(n, k) * k <= 0

\* Test blocks counted from the first row instead of back from the last.
TestStartFromFront(n, k, i) == i * TestSize(n, k)

\* test_starts = range(n - k * test_size, n, test_size), i = 1..k
TestStart(n, k, i) == n - k * TestSize(n, k) + (i - 1) * TestSize(n, k)

\* A training window that runs on through the test block.
TrainIndexThroughTest(n, k, i) ==
    [j \in 1..(TestStart(n, k, i) + TestSize(n, k)) |-> j - 1]

\* indices[:test_start]
TrainIndex(n, k, i) == [j \in 1..TestStart(n, k, i) |-> j - 1]

\* indices[test_start : test_start + test_size]
TestIndex(n, k, i) == [j \in 1..TestSize(n, k) |-> TestStart(n, k, i) + j - 1]

-----------------------------------------------------------------------------
(* The arrays of the evaluation *)

\* df_lagged[features].values
FeatureMatrix(df, feats) ==
    [i \in 1..Len(df) |->
        [j \in 1..Len(feats) |-> df[i][feats[j].col][feats[j].lag]]]

\* df_lagged["goog_up"].values
Labels(df) == [i \in 1..Len(df) |-> df[i].goog_up]

\* arr[index] for a 0-based index array
Take(arr, index) == [j \in 1..Len(index) |-> arr[index[j] + 1]]

-----------------------------------------------------------------------------
(* The classifiers.  The floats a fitted scikit-learn model returns come    *)
(* out of the library's optimisation and are not reproduced.  A score is    *)
(* kept as what the later steps of the program read from it: the side of    *)
(* 0.5 it falls on, which is the class predict returns, and its rank among  *)
(* the scores of the same call on that side, which is all roc_auc_score     *)
(* and roc_curve depend on.  A call may return every vector of such scores  *)
(* that a function of the feature row can produce; a decision tree, grown   *)
(* until its leaves are pure, is pinned down on the rows it was fitted on.  *)

select_model(name, id) ==
    IF name \in ModelNames
    THEN [id |-> id, kind |-> name, fitted |-> FALSE, classes |-> {},
          X |-> <<>>, y |-> <<>>, seen |-> {}]
    ELSE NoModel

HasPredictProba(m) == m.kind \in ModelNames

HasFeatureImportances(m) == m.kind \in {"Decision Tree", "Random Forest"}

\* fit raises: no feature column at all, or the linear model on one class.
FitRaises(m, X_train, y_train) ==
    \/ \E i \in 1..Len(X_train) : Len(X_train[i]) = 0
    \/ Len(X_train) = 0
    \/ m.kind = "Logistic Regression" /\ Cardinality(Range(y_train)) < 2

\* model.fit(X_train, y_train): the fitted state replaces the earlier one;
\* seen keeps every row the instance was ever fitted on.
Fit(m, rows, X_train, y_train) ==
    [m EXCEPT !.fitted = TRUE, !.classes = Range(y_train),
              !.X = X_train, !.y = y_train,
              !.seen = @ \cup Range(rows)]

Scores(n) == [side : {"low", "high"}, rank : 1..n]

ScoreLess(a, b) ==
    \/ a.side = "low" /\ b.side = "high"
    \/ a.side = b.side /\ a.rank < b.rank

\* The scores of one call as numbers in their order: the low side below
\* the high side, each side by rank.
Levels(s) ==
    [i \in 1..Len(s) |->
        IF s[i].side = "high" THEN Len(s) + s[i].rank ELSE s[i].rank]

\* The ranks used on one side are 1, 2, ... without a gap.
DenseRanks(s, side) ==
    LET used == {s[i].rank : i \in {j \in 1..Len(s) : s[j].side = side}}
    IN used = 1..Cardinality(used)

\* The training rows of m with the feature values x.
SameRows(m, x) == {i \in 1..Len(m.X) : m.X[i] = x}

\* The leaf of a fully grown tree that a training row x falls in holds the
\* share of positives among the training rows equal to x.
LeafShare(m, x) ==
    Frac(Cardinality({i \in SameRows(m, x) : m.y[i] = 1}),
         Cardinality(SameRows(m, x)))

FracLess(a, b) == a.num * b.den < b.num * a.den

AboveHalf(a) == 2 * a.num > a.den

\* The scores of rows that all have a training row equal to them, from
\* their leaf shares.
LeafScores(m, X) ==
    [i \in 1..Len(X) |->
        LET mine == LeafShare(m, X[i])
            below == {LeafShare(m, X[j]) : j \in {k \in 1..Len(X) :
                         /\ AboveHalf(LeafShare(m, X[k])) = AboveHalf(mine)
                         /\ FracLess(LeafShare(m, X[k]), mine)}}
        IN [side |-> IF AboveHalf(mine) THEN "high" ELSE "low",
            rank |-> 1 + Cardinality(below)]]

\* What a tree settles about the scores s of X_test: the rows it was
\* fitted on keep the side and the order of their leaf shares.
TreeAgrees(m, X_test, s) ==
    LET known == {i \in 1..Len(X_test) : SameRows(m, X_test[i]) # {}}
    IN /\ \A i \in known :
             (s[i].side = "high") = AboveHalf(LeafShare(m, X_test[i]))
       /\ \A i, j \in known :
             ScoreLess(s[i], s[j]) =
                FracLess(LeafShare(m, X_test[i]), LeafShare(m, X_test[j]))

\* The score vectors a model fitted on both classes can give for X_test.
ScoreOutcomes(m, X_test) ==
    {s \in [1..Len(X_test) -> Scores(Len(X_test))] :
        /\ \A i, j \in 1..Len(X_test) : X_test[i] = X_test[j] => s[i] = s[j]
        /\ DenseRanks(s, "low")
        /\ DenseRanks(s, "high")
        /\ m.kind = "Decision Tree" => TreeAgrees(m, X_test, s)}

\* model.predict(X_test), when the scores of X_test are s: the class of
\* the larger probability, the only class after a fit on one class.
Predict(m, X_test, s) ==
    [i \in 1..Len(X_test) |->
        IF Cardinality(m.classes) = 1 THEN CHOOSE c \in m.classes : TRUE
        ELSE IF s[i].side = "high" THEN 1 ELSE 0]

\* predict_proba(X_test)[:, 1] indexes a column that exists only when the
\* model was fitted on both classes.
ProbaRaises(m) == Cardinality(m.classes) < 2

\* model.predict_proba(X_test)[:, 1], when the scores of X_test are s.
PredictProba(m, X_test, s) == [i \in 1..Len(X_test) |-> s[i]]

\* y_pred used in place of the probabilities (line 127, no predict_proba).
AsScores(y_pred) ==
    [i \in 1..Len(y_pred) |->
        [side |-> IF y_pred[i] = 1 THEN "high" ELSE "low", rank |-> 1]]

-----------------------------------------------------------------------------
(* sklearn.metrics, zero_division at its default (0 with a warning) *)

Pairs(y_true, y_pred, t, p) ==
    Cardinality({i \in 1..Len(y_true) : y_true[i] = t /\ y_pred[i] = p})

accuracy_score(y_true, y_pred) ==
    Frac(Pairs(y_true, y_pred, 0, 0) + Pairs(y_true, y_pred, 1, 1), Len(y_true))

Ratio(n, d) == IF d = 0 THEN Frac(0, 1) ELSE Frac(n, d)

precision_score(y_true, y_pred) ==
    Ratio(Pairs(y_true, y_pred, 1, 1),
          Pairs(y_true, y_pred, 1, 1) + Pairs(y_true, y_pred, 0, 1))

recall_score(y_true, y_pred) ==
    Ratio(Pairs(y_true, y_pred, 1, 1),
          Pairs(y_true, y_pred, 1, 1) + Pairs(y_true, y_pred, 1, 0))

f1_score(y_true, y_pred) ==
    Ratio(2 * Pairs(y_true, y_pred, 1, 1),
          2 * Pairs(y_true, y_pred, 1, 1) + Pairs(y_true, y_pred, 0, 1)
            + Pairs(y_true, y_pred, 1, 0))

\* A test block with a single class: roc_auc_score has no value for it.
OneClass(y_true) == Cardinality(Range(y_true)) < 2

\* roc_auc_score: the share of (positive, negative) pairs the scores rank
\* right, a tied pair counted half.
roc_auc_score(y_true, y_score) ==
    IF OneClass(y_true) THEN NaN
    ELSE LET pos == {i \in 1..Len(y_true) : y_true[i] = 1}
             neg == {i \in 1..Len(y_true) : y_true[i] = 0}
             right == {pr \in pos \X neg : y_score[pr[2]] < y_score[pr[1]]}
             tied  == {pr \in pos \X neg : y_score[pr[1]] = y_score[pr[2]]}
         IN Frac(2 * Cardinality(right) + Cardinality(tied),
                 2 * Cardinality(pos) * Cardinality(neg))

FoldMetrics(y_test, y_pred, y_proba) ==
    [Accuracy  |-> accuracy_score(y_test, y_pred),
     Precision |-> precision_score(y_test, y_pred),
     Recall    |-> recall_score(y_test, y_pred),
     F1        |-> f1_score(y_test, y_pred),
     AUC       |-> roc_auc_score(y_test, Levels(y_proba))]

RECURSIVE FracSum(_)
FracSum(s) == IF s = <<>> THEN Frac(0, 1) ELSE FracAdd(Head(s), FracSum(Tail(s)))

\* round(3): to thousandths, a half to the even neighbour.
Round3(x) ==
    IF IsNaN(x) THEN NaN
    ELSE LET q == (1000 * x.num) \div x.den
             r == (1000 * x.num) % x.den
             t == IF 2 * r > x.den THEN q + 1
                  ELSE IF 2 * r = x.den THEN q + (q % 2)
                  ELSE q
         IN Frac(t, 1000)

\* DataFrame.mean() of one column: NaN entries are skipped.
ColumnMean(ms, c) ==
    LET vals == SelectSeq([i \in 1..Len(ms) |-> ms[i][c]], LAMBDA v : ~IsNaN(v))
        total == FracSum(vals)
    IN IF vals = <<>> THEN NaN ELSE Frac(total.num, total.den * Len(vals))

\* pd.DataFrame(metrics).mean().round(3)
MeanMetrics(ms) ==
    [c \in {"Accuracy", "Precision", "Recall", "F1", "AUC"} |->
        Round3(ColumnMean(ms, c))]

\* The rows counted at a threshold: those scored at least t.
AtLeast(y_true, y_score, t, c) ==
    Cardinality({i \in 1..Len(y_true) :
                   y_true[i] = c /\ y_score[i] >= t})

\* The distinct scores, largest first.
Thresholds(y_score) ==
    LET D == Range(y_score)
    IN [k \in 1..Cardinality(D) |->
           CHOOSE t \in D : Cardinality({u \in D : t < u}) = k - 1]

\* roc_curve(y, proba), drop_intermediate at its default: one point per
\* distinct score, without the points in the middle of a straight run, after
\* the point (0, 0) of the threshold above every score.
roc_curve(y_true, y_score) ==
    LET th == Thresholds(y_score)
        fps == [k \in 1..Len(th) |-> AtLeast(y_true, y_score, th[k], 0)]
        tps == [k \in 1..Len(th) |-> AtLeast(y_true, y_score, th[k], 1)]
        Bend(c, k) == c[k + 1] - 2 * c[k] + c[k - 1] # 0
        kept == IF Len(th) <= 2 THEN 1..Len(th)
                ELSE {k \in 1..Len(th) :
                        k = 1 \/ k = Len(th) \/ Bend(fps, k) \/ Bend(tps, k)}
        idx == AscSeq(kept)
    IN <<[fpr |-> Frac(0, 1), tpr |-> Frac(0, 1)]>> \o
       [j \in 1..Len(idx) |->
           [fpr |-> Frac(fps[idx[j]], fps[Len(th)]),
            tpr |-> Frac(tps[idx[j]], tps[Len(th)])]]

\* Every order the rows of a table can be given.
RowOrders(s) ==
    {p \in [1..Len(s) -> Range(s)] : \A i, j \in 1..Len(s) : i # j => p[i] # p[j]}

-----------------------------------------------------------------------------
(* The run: evaluation *)

NSamples == Len(df_lagged)

\* Lines 115-119: the splitter, the one model of the run, the empty tables.
SelectModel ==
    /\ pc = "prepared"
    /\ model' = select_model(model_type, n_instances + 1)
    /\ n_instances' = n_instances + 1
    /\ metrics' = <<>>
    /\ preds_df' = <<>>
    /\ pc' = "loop"
    /\ UNCHANGED <<inputs, error, df_raw, df_lagged, features, folds, fit_log,
                   pred_log, df_metrics, roc, fi>>

\* Line 121, first iteration: split refuses the sample.
SplitError ==
    /\ pc = "loop"
    /\ folds = <<>>
    /\ SplitRaises(NSamples, splits)
    /\ Raise("ValueError")
    /\ UNCHANGED <<inputs, df_raw, df_lagged, features, model, n_instances,
                   folds, metrics, preds_df, fit_log, pred_log, df_metrics,
                   roc, fi>>

\* The fold the loop is about to take.
InLoop ==
    /\ pc = "loop"
    /\ ~SplitRaises(NSamples, splits)
    /\ Len(folds) < splits

NextFold ==
    [train |-> TrainIndex(NSamples, splits, Len(folds) + 1),
     test  |-> TestIndex(NSamples, splits, Len(folds) + 1)]

X_of(index) == Take(FeatureMatrix(df_lagged, features), index)

y_of(index) == Take(Labels(df_lagged), index)

FitEntry(m, fold, f) ==
    [instance |-> m.id, fold |-> fold, train |-> Range(f.train),
     test |-> Range(f.test)]

PredEntries(m, fold, f) ==
    [j \in 1..Len(f.test) |->
        [fold |-> fold, row |-> f.test[j], instance |-> m.id, seen |-> m.seen]]

\* Lines 121-125: model.fit raises.
FoldFitError ==
    /\ InLoop
    /\ FitRaises(model, X_of(NextFold.train), y_of(NextFold.train))
    /\ folds' = Append(folds, NextFold)
    /\ Raise("ValueError")
    /\ UNCHANGED <<inputs, df_raw, df_lagged, features, model, n_instances,
                   metrics, preds_df, fit_log, pred_log, df_metrics, roc, fi>>

\* Lines 121-127: a tree fitted on one class predicts, then
\* predict_proba(X_test)[:, 1] raises.
FoldProbaError ==
    /\ InLoop
    /\ ~FitRaises(model, X_of(NextFold.train), y_of(NextFold.train))
    /\ LET f == NextFold
           m == Fit(model, f.train, X_of(f.train), y_of(f.train))
       IN /\ ProbaRaises(m)
          /\ HasPredictProba(m)
          /\ model' = m
          /\ folds' = Append(folds, f)
          /\ fit_log' = Append(fit_log, FitEntry(m, Len(folds) + 1, f))
          /\ pred_log' = pred_log \o PredEntries(m, Len(folds) + 1, f)
    /\ Raise("IndexError")
    /\ UNCHANGED <<inputs, df_raw, df_lagged, features, n_instances, metrics,
                   preds_df, df_metrics, roc, fi>>

\* Lines 121-135: fit and predict succeed, the test block has one class and
\* roc_auc_score raises (scikit-learn releases that raise for it).
FoldAucError ==
    /\ InLoop
    /\ ~FitRaises(model, X_of(NextFold.train), y_of(NextFold.train))
    /\ LET f == NextFold
           m == Fit(model, f.train, X_of(f.train), y_of(f.train))
       IN /\ ~ProbaRaises(m)
          /\ OneClass(y_of(f.test))
          /\ model' = m
          /\ folds' = Append(folds, f)
          /\ fit_log' = Append(fit_log, FitEntry(m, Len(folds) + 1, f))
          /\ pred_log' = pred_log \o PredEntries(m, Len(folds) + 1, f)
    /\ Raise("ValueError")
    /\ UNCHANGED <<inputs, df_raw, df_lagged, features, n_instances, metrics,
                   preds_df, df_metrics, roc, fi>>

\* Lines 121-142: the whole loop body.  On a one-class test block this is
\* the outcome of the scikit-learn releases whose roc_auc_score warns and
\* returns NaN.
FoldDone ==
    /\ InLoop
    /\ ~FitRaises(model, X_of(NextFold.train), y_of(NextFold.train))
    /\ LET f == NextFold
           m == Fit(model, f.train, X_of(f.train), y_of(f.train))
           X_test == X_of(f.test)
           y_test == y_of(f.test)
       IN /\ ~ProbaRaises(m)
          /\ \E s \in ScoreOutcomes(m, X_test) :
               LET y_pred == Predict(m, X_test, s)
                   y_proba == IF HasPredictProba(m) THEN PredictProba(m, X_test, s)
                              ELSE AsScores(y_pred)
               IN /\ metrics' = Append(metrics, FoldMetrics(y_test, y_pred, y_proba))
                  /\ preds_df' = preds_df \o
                       [j \in 1..Len(y_test) |->
                          [Actual |-> y_test[j], Predicted |-> y_pred[j],
                           Probability |-> y_proba[j]]]
          /\ model' = m
          /\ folds' = Append(folds, f)
          /\ fit_log' = Append(fit_log, FitEntry(m, Len(folds) + 1, f))
          /\ pred_log' = pred_log \o PredEntries(m, Len(folds) + 1, f)
    /\ UNCHANGED <<inputs, pc, error, df_raw, df_lagged, features, n_instances,
                   df_metrics, roc, fi>>

\* Lines 144-153: the loop is over; the averaged metrics and the
\* predictions table go to the first tab.
Aggregate ==
    /\ pc = "loop"
    /\ ~SplitRaises(NSamples, splits)
    /\ Len(folds) = splits
    /\ df_metrics' = <<MeanMetrics(metrics)>>
    /\ pc' = "report"
    /\ UNCHANGED <<inputs, error, df_raw, df_lagged, features, model,
                   n_instances, folds, metrics, preds_df, fit_log, pred_log,
                   roc, fi>>

AllRows == [j \in 1..NSamples |-> j - 1]

\* The orders a function of the feature row can give the rows of X: equal
\* rows tie, and the levels used are 1, 2, ... without a gap.
ScoreOrders(X) ==
    LET D == Range(X)
        G == {g \in [D -> 1..Cardinality(D)] :
                {g[x] : x \in D} = 1..Cardinality({g[x] : x \in D})}
    IN {[i \in 1..Len(X) |-> g[X[i]]] : g \in G}

\* Line 158: the scores of the rows the model has just been fitted on, as
\* far as roc_curve and roc_auc_score read them, which is their order.  A
\* decision tree gives its leaf shares; the other models any order; a model
\* without predict_proba would give its predictions, two values at most.
FullSampleScores(m) ==
    IF m.kind = "Decision Tree" THEN {Levels(LeafScores(m, m.X))}
    ELSE IF HasPredictProba(m) THEN ScoreOrders(m.X)
    ELSE {s \in ScoreOrders(m.X) : Cardinality(Range(s)) <= 2}

\* Lines 159-161: the points of the ROC curve and the AUC of its legend.
RocTab(y, proba) ==
    [points |-> roc_curve(y, proba), auc |-> roc_auc_score(y, proba)]

\* Lines 155-179: the run's model is fitted again, on every row, for the ROC
\* curve; the third tab lists the features by descending importance when
\* the model has importances.  The importances are the library's, so every
\* order of the rows can come out of the sort.
FullSampleFit ==
    /\ pc = "report"
    /\ LET m == Fit(model, AllRows, X_of(AllRows), y_of(AllRows))
       IN /\ model' = m
          /\ fit_log' = Append(fit_log,
               [instance |-> m.id, fold |-> 0, train |-> Range(AllRows),
                test |-> {}])
          /\ \E proba \in FullSampleScores(m) : roc' = <<RocTab(m.y, proba)>>
          /\ IF HasFeatureImportances(m)
             THEN \E order \in RowOrders(features) :
                     fi' = <<[available |-> TRUE, Feature |-> order]>>
             ELSE fi' = <<[available |-> FALSE, Feature |-> <<>>]>>
    /\ pc' = "done"
    /\ UNCHANGED <<inputs, error, df_raw, df_lagged, features, n_instances,
                   folds, metrics, preds_df, pred_log, df_metrics>>

-----------------------------------------------------------------------------
(* Inputs of a whole run *)

\* The target prices of a run: every path that repeats after three days.
PeriodicPaths(n) ==
    {[j \in 1..n |-> pat[((j - 1) % 3) + 1]] : pat \in [1..3 -> PriceTexts]}

RunLags == {<<>>, <<1>>, <<5>>}

Init ==
    /\ \E price \in PeriodicPaths(MaxDate),
          first \in {1, 3} :
          /\ goog_file = CsvFile(1..MaxDate, "asc", price)
          /\ sp500_file = CsvFile(first..MaxDate, "desc", SpPath(MaxDate))
    /\ lags \in RunLags
    /\ model_type \in ModelNames
    /\ splits \in MinSplits..Min(SliderMaxSplits, MaxSplits)
    /\ Unstarted

Next ==
    \/ LoadData
    \/ PatternDetection
    \/ PrepareFeatures
    \/ SelectModel
    \/ SplitError
    \/ FoldFitError
    \/ FoldProbaError
    \/ FoldAucError
    \/ FoldDone
    \/ Aggregate
    \/ FullSampleFit

Spec == Init /\ [][Next]_vars

NextData == LoadData \/ PatternDetection \/ PrepareFeatures

SpecData == InitData /\ [][NextData]_vars

-----------------------------------------------------------------------------
(* Properties *)

Prepared == pc = "prepared"

LoopEntered == pc \in {"loop", "report", "done"} \/ (pc = "error" /\ model # NoModel)

\* The dates both uploaded files hold, parsed.
CommonDates ==
    {to_datetime(goog_file[i].Date) : i \in 1..Len(goog_file)}
    \cap {to_datetime(sp500_file[i].Date) : i \in 1..Len(sp500_file)}

PriceAt(file, t) ==
    LET i == CHOOSE j \in 1..Len(file) : to_datetime(file[j].Date) = t
    IN ParsePrice(file[i].AdjClose)

\* The common date just before t.
PreviousDate(t) == SetMax({d \in CommonDates : d < t})

\* The row of df_raw a row of df_lagged was made from: the one of its date.
SourceRow(i) == CHOOSE j \in 1..Len(df_raw) : df_raw[j].Date = df_lagged[i].Date

\* C1: in every fold the loop takes, every training row is dated strictly
\* before every test row of that fold.
C1_TrainBeforeTestInTime ==
    \A f \in 1..Len(fit_log) :
        fit_log[f].fold >= 1 =>
            \A tr \in fit_log[f].train, te \in fit_log[f].test :
                df_lagged[tr + 1].Date < df_lagged[te + 1].Date

\* C2: every lag-k feature of a record is the pair of returns of a loaded
\* row dated strictly before the record (the row k places after the
\* record's own in df_raw); none comes from a row dated later.
C2_LagFeaturesFromEarlierRows ==
    Prepared =>
        \A i \in 1..Len(df_lagged) : \A k \in Range(lags) :
            LET j == SourceRow(i) + k
            IN /\ j <= Len(df_raw)
               /\ df_raw[j].Date < df_lagged[i].Date
               /\ df_lagged[i].goog_lag[k] = df_raw[j].goog_ret
               /\ df_lagged[i].sp_lag[k] = df_raw[j].sp_ret

C2_Witness ==
    /\ Prepared
    /\ Len(df_lagged) >= 2
    /\ \E i \in 1..Len(df_lagged) : \E k \in Range(lags) :
          /\ df_lagged[i].goog_lag[k] # df_lagged[i].goog_ret
          /\ df_lagged[i].sp_lag[k] # df_lagged[i].sp_ret

\* The folds TimeSeriesSplit yields for n samples and k splits.
AllFolds(n, k) ==
    [i \in 1..k |-> [train |-> TrainIndex(n, k, i), test |-> TestIndex(n, k, i)]]

IsBlock(index) ==
    /\ Len(index) >= 1
    /\ \A j \in 1..Len(index) : index[j] = index[1] + j - 1

\* C3: for N > k the loop's split yields exactly k folds, in increasing
\* order of test start; the test sets are pairwise disjoint contiguous
\* blocks, each training set is the prefix before its test block, and the
\* test sets together are exactly the rows after the first training prefix.
C3_FoldGeometry ==
    (LoopEntered /\ NSamples > splits) =>
        LET fs == AllFolds(NSamples, splits)
        IN /\ ~SplitRaises(NSamples, splits)
           /\ Len(folds) <= splits
           /\ \A i \in 1..Len(folds) : folds[i] = fs[i]
           /\ pc \in {"report", "done"} => Len(folds) = splits
           /\ \A i \in 1..splits :
                 /\ IsBlock(fs[i].test)
                 /\ fs[i].train = [j \in 1..fs[i].test[1] |-> j - 1]
           /\ \A i \in 1..(splits - 1) : fs[i].test[1] < fs[i + 1].test[1]
           /\ \A i, j \in 1..splits :
                 i # j => Range(fs[i].test) \cap Range(fs[j].test) = {}
           /\ UNION {Range(fs[i].test) : i \in 1..splits}
                = (0..(NSamples - 1)) \ Range(fs[1].train)

C3_Witness ==
    /\ pc = "done"
    /\ Len(folds) = splits
    /\ Len(folds[1].test) >= 2
    /\ Len(folds[1].train) >= 2
    /\ Len(folds[splits].train) = NSamples - Len(folds[1].test)

\* C4: for a non-empty lag selection and N > max(lags) loaded rows,
\* prepare_features keeps exactly rows 0 .. N - max(lags) - 1, unchanged and
\* in order, and the lag-k features of row i are the returns of input row
\* i + k, which is a row of the input.
C4_LagOffsets ==
    (Prepared /\ lags # <<>> /\ Len(df_raw) > SetMax(Range(lags))) =>
        /\ Len(df_lagged) = Len(df_raw) - SetMax(Range(lags))
        /\ \A i \in 1..Len(df_lagged) :
              /\ \A c \in DOMAIN df_raw[i] : df_lagged[i][c] = df_raw[i][c]
              /\ \A k \in Range(lags) :
                    /\ i + k <= Len(df_raw)
                    /\ df_lagged[i].goog_lag[k] = df_raw[i + k].goog_ret
                    /\ df_lagged[i].sp_lag[k] = df_raw[i + k].sp_ret

C4_Witness ==
    /\ Prepared
    /\ Len(lags) = 2
    /\ lags[1] > lags[2]
    /\ Len(df_raw) > SetMax(Range(lags))
    /\ Len(df_lagged) >= 2
    /\ Len(df_lagged) < Len(df_raw)
    /\ df_lagged[1].goog_lag[lags[1]] # df_lagged[1].goog_lag[lags[2]]

\* C5: the return of the record dated t is price[t] / price[previous common
\* date] - 1, the one common date without a record is the earliest, and
\* goog_up is 1 exactly when the target price at t is at least the price at
\* the previous common date.
C5_ReturnAgainstPreviousDate ==
    /\ pc \in {"loaded", "patterns", "prepared"} =>
          /\ {df_raw[i].Date : i \in 1..Len(df_raw)}
               = CommonDates \ {d \in CommonDates : \A e \in CommonDates : d <= e}
          /\ \A i \in 1..Len(df_raw) :
                LET t == df_raw[i].Date
                IN /\ t \in CommonDates
                   /\ \E d \in CommonDates : d < t
                   /\ df_raw[i].goog_ret =
                        Frac(PriceAt(goog_file, t) - PriceAt(goog_file, PreviousDate(t)),
                             PriceAt(goog_file, PreviousDate(t)))
                   /\ df_raw[i].sp_ret =
                        Frac(PriceAt(sp500_file, t) - PriceAt(sp500_file, PreviousDate(t)),
                             PriceAt(sp500_file, PreviousDate(t)))
    /\ Prepared =>
          \A i \in 1..Len(df_lagged) :
              LET t == df_lagged[i].Date
              IN /\ \E d \in CommonDates : d < t
                 /\ df_lagged[i].goog_up = 1 <=>
                      PriceAt(goog_file, t) >= PriceAt(goog_file, PreviousDate(t))

\* C6: no model instance is fitted more than once: every fold, and the
\* full-sample fit, has an instance of its own.
C6_FreshModelPerFit ==
    \A i, j \in 1..Len(fit_log) :
        i # j => fit_log[i].instance # fit_log[j].instance

\* C7: when a fold predicts a test row, the predicting instance has never
\* been fitted on that row; the predictions table holds exactly such
\* predictions, fold after fold, each fold's rows in order.
C7_OutOfFoldPredictions ==
    /\ \A p \in 1..Len(pred_log) :
          /\ pred_log[p].row \notin pred_log[p].seen
          /\ pred_log[p].seen # {}
          /\ pred_log[p].instance = model.id
    /\ \A p \in 1..(Len(pred_log) - 1) :
          /\ pred_log[p].fold <= pred_log[p + 1].fold
          /\ pred_log[p].row < pred_log[p + 1].row
    /\ Len(preds_df) <= Len(pred_log)
    /\ pc # "error" => Len(preds_df) = Len(pred_log)
    /\ \A p \in 1..Len(preds_df) :
          /\ preds_df[p].Actual = df_lagged[pred_log[p].row + 1].goog_up
          /\ preds_df[p].Predicted \in {0, 1}

C7_Witness ==
    /\ pc = "done"
    /\ Len(preds_df) >= 2 * splits
    /\ \E p \in 1..Len(preds_df) : preds_df[p].Predicted # preds_df[p].Actual
    /\ \E p \in 1..Len(preds_df) : preds_df[p].Predicted = preds_df[p].Actual

\* C8 as stated: the feature list is the target-lag columns in ascending
\* lag order, then the index-lag columns in ascending lag order, whatever
\* the order of selection.
C8_AscendingFeatureOrder ==
    Prepared =>
        features = [j \in 1..Len(lags) |-> FeatureName("goog_lag", SortedLags(lags)[j])]
                   \o [j \in 1..Len(lags) |-> FeatureName("sp_lag", SortedLags(lags)[j])]

\* C8 as amended: the feature list is the target-lag columns in the order
\* the lags were selected, then the index-lag columns in that same order.
C8_SelectionFeatureOrder ==
    Prepared =>
        /\ Len(features) = 2 * Len(lags)
        /\ \A j \in 1..Len(lags) :
              /\ features[j] = FeatureName("goog_lag", lags[j])
              /\ features[Len(lags) + j] = FeatureName("sp_lag", lags[j])

C8_Witness ==
    /\ Prepared
    /\ Len(lags) >= 2
    /\ lags[1] > lags[2]
    /\ features[1].lag > features[2].lag

\* C9: a fold whose test block holds one class never appends metric values,
\* so it never enters the averaged metrics.
C9_DegenerateFoldRaises ==
    \A i \in 1..Len(metrics) : ~OneClass(y_of(folds[i].test))

\* C10: when the records left after lag construction do not exceed the
\* number of folds, the run ends in an error at the split: no model is ever
\* fitted and no metrics, predictions, ROC points or importances appear.
C10_TooFewRowsFailFast ==
    (LoopEntered /\ NSamples <= splits) =>
        /\ pc \in {"loop", "error"}
        /\ pc = "loop" => SplitRaises(NSamples, splits) /\ folds = <<>>
        /\ pc = "error" => error = "ValueError"
        /\ ~model.fitted
        /\ fit_log = <<>>
        /\ pred_log = <<>>
        /\ folds = <<>>
        /\ metrics = <<>>
        /\ preds_df = <<>>
        /\ df_metrics = <<>>
        /\ roc = <<>>
        /\ fi = <<>>

C10_Witness ==
    /\ pc = "error"
    /\ model # NoModel
    /\ NSamples >= 1
    /\ NSamples = splits

====
